---- MODULE Spec2Model ----
(***************************************************************************)
(* Model of the kubi token service: services (basicAuth, generateUserToken,*)
(* baseGenerateToken, GenerateJWT, GenerateConfig, VerifyJWT, CurrentJWT)  *)
(* and utils.MakeConfig.                                                   *)
(*                                                                         *)
(* Strings whose content the code inspects are sequences of atoms (a word  *)
(* or a separator such as ":"), so that strings.SplitN is computed.  Texts *)
(* that the code only decodes (base64 text, token segments) are records    *)
(* that say what the decoder returns for them.                             *)
(***************************************************************************)
EXTENDS Integers, Sequences, FiniteSets, TLC

\* ------------------------------------------------------------------ bounds
\* Clock ticks per second: the clock is finer than the second the token's
\* exp field is truncated to.
TicksPerSec == 2
\* The clock stops advancing at this tick.
MaxTime == 6
\* At most this many tokens are remembered as issued.
MaxIssued == 1

\* Go's nil (pointer, error, slice).
Nil == "nil"

\* ----------------------------------------------------------------- strings
\* Index of the first element of s equal to c, 0 when there is none.
IndexOf(s, c) ==
    IF \E i \in 1..Len(s) : s[i] = c
    THEN CHOOSE i \in 1..Len(s) : s[i] = c /\ \A j \in 1..(i - 1) : s[j] # c
    ELSE 0

\* strings.SplitN(s, sep, 2): one piece when sep does not occur, else the
\* text before the first sep and the whole text after it.
SplitN(s, sep) ==
    LET i == IndexOf(s, sep)
    IN  IF i = 0 THEN <<s>>
        ELSE <<SubSeq(s, 1, i - 1), SubSeq(s, i + 1, Len(s))>>

\* A base64 text is described by what base64.StdEncoding.DecodeString
\* returns for it: the bytes decoded before the first invalid input, and
\* whether an invalid input was met (the CorruptInputError).
DecodeString(text) == [bytes |-> text.bytes, err |-> IF text.bad THEN "CorruptInputError" ELSE Nil]

\* ------------------------------------------------------- Credential Extractor
\* The Authorization header of an issuance request: scheme is the text
\* before the first space (it holds no space), sep says whether a space
\* follows it, rest is the base64 text after that space.
HeaderParts(h) == IF h.sep THEN <<h.scheme, h.rest>> ELSE <<h.scheme>>

\* The nil *types.Auth (isNil), and a pointer to a types.Auth.
NilAuth == [isNil |-> TRUE, Username |-> <<>>, Password |-> <<>>]
Auth(u, p) == [isNil |-> FALSE, Username |-> u, Password |-> p]

\* basicAuth: (err, auth), or a run-time panic (index out of range on
\* pair[1]).  The error of DecodeString is discarded.
basicAuth(h) ==
    LET auth == HeaderParts(h)
    IN  IF Len(auth) # 2 \/ auth[1] # "Basic"
        THEN [err |-> "Invalid Auth", auth |-> NilAuth, panic |-> FALSE]
        ELSE LET payload == DecodeString(auth[2]).bytes
                 pair == SplitN(payload, ":")
             IN  IF Len(pair) < 2
                 THEN [err |-> Nil, auth |-> NilAuth, panic |-> TRUE]
                 ELSE [err |-> Nil,
                       auth |-> Auth(pair[1], pair[2]),
                       panic |-> FALSE]

\* -------------------------------------------------------------------- time
\* time.Time.Unix(): the whole seconds of an instant given in clock ticks.
Unix(t) == t \div TicksPerSec

\* time.ParseDuration on the strings the configuration is given in this
\* model: the duration in clock ticks, or an error with the zero duration.
ParseDuration(s) ==
    CASE s = "1s" -> [d |-> TicksPerSec, err |-> Nil]
      [] s = "4h" -> [d |-> 14400 * TicksPerSec, err |-> Nil]
      [] OTHER    -> [d |-> 0, err |-> "time: invalid duration"]

\* ------------------------------------------------------------- jwt library
\* A token segment is base64url text.  It is described by what
\* jwt.DecodeSegment returns for it: ok says whether it decodes, val is the
\* decoded content, and slack stands for the bits of the text that decoding
\* drops (base64.URLEncoding is not strict: the unused low bits of the last
\* character are not checked), so two texts that differ in slack only decode
\* to the same content.
EncodeSegment(v) == [ok |-> TRUE, val |-> v, slack |-> 0]

DecodeSegment(seg) ==
    IF seg.ok THEN [val |-> seg.val, err |-> Nil]
    ELSE [val |-> seg.val, err |-> "illegal base64 data"]

\* The decoded content of a header or payload segment is JSON text or not:
\* json says which, obj is the JSON object.
Json(o) == [json |-> TRUE, obj |-> o]
NoFields == [alg |-> "", auths |-> <<>>, user |-> <<>>, adminAccess |-> FALSE, exp |-> {}, iss |-> {}]
NotJson == [json |-> FALSE, obj |-> NoFields]

\* types.AuthJWTClaims with its embedded jwt.StandardClaims.
Claims(auths, user, admin, exp, iss) ==
    [Auths |-> auths, User |-> user, AdminAccess |-> admin, ExpiresAt |-> exp, Issuer |-> iss]
ZeroClaims == Claims(<<>>, <<>>, FALSE, 0, "")

\* json.Marshal of the claims: exp and iss are omitempty (an omitted field
\* is the empty set, a present one the singleton of its value).
MarshalClaims(c) ==
    Json([alg |-> "", auths |-> c.Auths, user |-> c.User, adminAccess |-> c.AdminAccess,
          exp |-> IF c.ExpiresAt = 0 THEN {} ELSE {c.ExpiresAt},
          iss |-> IF c.Issuer = "" THEN {} ELSE {c.Issuer}])

\* json decoding of a payload object into a zero AuthJWTClaims.
UnmarshalClaims(o) ==
    Claims(o.auths, o.user, o.adminAccess,
           IF o.exp = {} THEN 0 ELSE CHOOSE x \in o.exp : TRUE,
           IF o.iss = {} THEN "" ELSE CHOOSE x \in o.iss : TRUE)

\* The JOSE header {"alg": a, "typ": "JWT"}.
MarshalHeader(a) == Json([NoFields EXCEPT !.alg = a])

HmacAlgs == {"HS256", "HS384", "HS512"}
\* The signing methods jwt-go registers (the RSA and ECDSA families are
\* represented by RS256).
RegisteredAlgs == HmacAlgs \cup {"none", "RS256"}

\* crypto/hmac prepares the key by padding it with zero bytes to the block
\* size: keys that differ in trailing zero bytes only are the same key.
RECURSIVE PadKey(_)
PadKey(k) ==
    IF Len(k) > 0 /\ k[Len(k)] = 0 THEN PadKey(SubSeq(k, 1, Len(k) - 1)) ELSE k

\* The MAC, taken as ideal: different (algorithm, prepared key, message)
\* give different MACs.
HMAC(alg, key, signingString) == <<alg, PadKey(key), signingString>>

\* SigningMethod.Verify(signingString, signature, key) with a []byte key:
\* the error, Nil when the signature verifies.
MethodVerify(alg, signingString, signature, key) ==
    IF alg \in HmacAlgs
    THEN LET sig == DecodeSegment(signature)
         IN  IF sig.err # Nil THEN sig.err
             ELSE IF sig.val = HMAC(alg, key, signingString) THEN Nil
             ELSE "signature is invalid"
    ELSE IF alg = "none" THEN "'none' signature type is not allowed"
    ELSE "key is of invalid type"

\* StandardClaims.VerifyExpiresAt(now, req) (verifyExp).
VerifyExpiresAt(exp, nowSec, req) == IF exp = 0 THEN ~req ELSE nowSec <= exp

\* StandardClaims.Valid(): the set of validation error flags.
ClaimsValid(c, nowSec) == IF VerifyExpiresAt(c.ExpiresAt, nowSec, FALSE) THEN {} ELSE {"Expired"}

\* *jwt.Token: isNil for the nil pointer; hasClaims is false while the
\* Claims interface is still nil.
NilToken == [isNil |-> TRUE, hasClaims |-> FALSE, Claims |-> ZeroClaims, Valid |-> FALSE]
Token(has, c, v) == [isNil |-> FALSE, hasClaims |-> has, Claims |-> c, Valid |-> v]

\* jwt.ParseWithClaims with the failed validation of the claims not
\* reported: the token is not valid and the error is nil.
ParseWithClaimsSilentClaims(tokenString, key, nowSec) ==
    IF Len(tokenString) # 3 THEN [token |-> NilToken, err |-> {"Malformed"}]
    ELSE
    LET h == DecodeSegment(tokenString[1])
        p == DecodeSegment(tokenString[2])
    IN  IF h.err # Nil \/ ~h.val.json
        THEN [token |-> Token(FALSE, ZeroClaims, FALSE), err |-> {"Malformed"}]
        ELSE IF p.err # Nil \/ ~p.val.json
        THEN [token |-> Token(TRUE, ZeroClaims, FALSE), err |-> {"Malformed"}]
        ELSE
        LET claims == UnmarshalClaims(p.val.obj)
            alg == h.val.obj.alg
        IN  IF alg \notin RegisteredAlgs
            THEN [token |-> Token(TRUE, claims, FALSE), err |-> {"Unverifiable"}]
            ELSE
            LET sErr == IF MethodVerify(alg, <<tokenString[1], tokenString[2]>>,
                                        tokenString[3], key) # Nil
                        THEN {"SignatureInvalid"} ELSE {}
                vErr == ClaimsValid(claims, nowSec) \cup sErr
            IN  [token |-> Token(TRUE, claims, vErr = {}), err |-> sErr]

\* jwt.ParseWithClaims(tokenString, &types.AuthJWTClaims{}, keyFunc) where
\* keyFunc returns key for every token.  tokenString is given as the
\* sequence of its dot-separated segments.  The result is (token, err), err
\* being the set of ValidationError flags, empty for the nil error.
ParseWithClaims(tokenString, key, nowSec) ==
    IF Len(tokenString) # 3 THEN [token |-> NilToken, err |-> {"Malformed"}]
    ELSE
    LET h == DecodeSegment(tokenString[1])
        p == DecodeSegment(tokenString[2])
    IN  IF h.err # Nil \/ ~h.val.json
        THEN [token |-> Token(FALSE, ZeroClaims, FALSE), err |-> {"Malformed"}]
        ELSE IF p.err # Nil \/ ~p.val.json
        THEN [token |-> Token(TRUE, ZeroClaims, FALSE), err |-> {"Malformed"}]
        ELSE
        LET claims == UnmarshalClaims(p.val.obj)
            alg == h.val.obj.alg
        IN  IF alg \notin RegisteredAlgs
            THEN [token |-> Token(TRUE, claims, FALSE), err |-> {"Unverifiable"}]
            ELSE
            LET vErr == ClaimsValid(claims, nowSec) \cup
                        (IF MethodVerify(alg, <<tokenString[1], tokenString[2]>>,
                                         tokenString[3], key) # Nil
                         THEN {"SignatureInvalid"} ELSE {})
            IN  IF vErr = {} THEN [token |-> Token(TRUE, claims, TRUE), err |-> {}]
                ELSE [token |-> Token(TRUE, claims, FALSE), err |-> vErr]

\* jwt.NewWithClaims(jwt.SigningMethodHS512, claims).SignedString(key): the
\* three segments of the compact form, and the error (none for a []byte key).
SignedString(claims, key) ==
    LET h == EncodeSegment(MarshalHeader("HS512"))
        p == EncodeSegment(MarshalClaims(claims))
    IN  [token |-> <<h, p, EncodeSegment(HMAC("HS512", key, <<h, p>>))>>, err |-> Nil]

\* --------------------------------------------------------------- the state
VARIABLES
    keyFile,     \* the file at utils.TlsKeyPath when the process starts
    signingKey,  \* the package variable signingKey
    Config,      \* the package variable utils.Config
    phase,       \* "boot" before main has built the configuration, then "serving" or "exited"
    now,         \* the clock (time.Now), in ticks
    issued,      \* the tokens generateUserToken has returned, with when and how
    expired,     \* the issued tokens CurrentJWT has rejected as expired
    last         \* the call handled last: its input, the steps taken, the result

vars == <<keyFile, signingKey, Config, phase, now, issued, expired, last>>

\* ------------------------------------------------------------ configuration
\* ioutil.ReadFile: the content, or nil and an error.
ReadFile(f) ==
    IF f.readable THEN [data |-> f.content, err |-> Nil]
    ELSE [data |-> <<>>, err |-> "open: no such file or directory"]

\* Key material: byte strings.
Keys == {<<>>, <<1>>, <<1, 0>>, <<2>>}
KeyFiles == {[readable |-> FALSE, content |-> <<>>]} \cup
            {[readable |-> TRUE, content |-> k] : k \in {<<1>>, <<2>>}}

\* utils.getEnv(key, fallback): the variable's value, the fallback when it
\* is not set (not set is the empty string).
getEnv(value, fallback) == IF value = "" THEN fallback ELSE value

\* *types.Config: the fields the services read.
NilConfig == [isNil |-> TRUE, TokenLifeTime |-> "", KubeCa |-> "", ApiServerURL |-> ""]

\* What MakeConfig finds in the process environment: inCluster (the
\* KUBERNETES_SERVICE_* variables are set), fatal (one of the check, checkf
\* or log.Fatalf calls ends the process), cfgOk and ldapOk (the outcome of
\* the two validation.ValidateStruct calls), lifetime (TOKEN_LIFETIME).
Environments ==
    [inCluster : BOOLEAN, fatal : BOOLEAN, cfgOk : BOOLEAN, ldapOk : BOOLEAN,
     lifetime : {"", "1s", "abc"}]

\* utils.MakeConfig: (config, err), or the process exits.
MakeConfig(e) ==
    IF ~e.inCluster THEN [config |-> NilConfig, err |-> "ErrNotInCluster", exit |-> FALSE]
    ELSE IF e.fatal THEN [config |-> NilConfig, err |-> Nil, exit |-> TRUE]
    ELSE
    LET config == [isNil |-> FALSE,
                   TokenLifeTime |-> getEnv(e.lifetime, "4h"),
                   KubeCa |-> "Q0E=",
                   ApiServerURL |-> "10.0.0.1:443"]
        err == IF e.cfgOk THEN Nil ELSE "config: invalid"
        errLdap == IF e.ldapOk THEN Nil ELSE "ldap: invalid"
    IN  IF err # Nil THEN [config |-> NilConfig, err |-> err, exit |-> FALSE]
        ELSE IF errLdap # Nil THEN [config |-> NilConfig, err |-> err, exit |-> FALSE]
        ELSE [config |-> config, err |-> Nil, exit |-> FALSE]

\* ---------------------------------------------------------------- directory
\* The answers of the directory to one request: AuthenticateUser succeeds
\* or not, GetUserGroups succeeds or not and returns groups, HasAdminAccess.
DirAnswers ==
    {[authOk |-> FALSE, groupsOk |-> FALSE, groups |-> <<>>, admin |-> FALSE],
     [authOk |-> TRUE, groupsOk |-> FALSE, groups |-> <<>>, admin |-> FALSE],
     [authOk |-> TRUE, groupsOk |-> TRUE, groups |-> <<>>, admin |-> FALSE],
     [authOk |-> TRUE, groupsOk |-> TRUE, groups |-> <<"grp-ns-dev", "grp-admin">>, admin |-> TRUE]}

\* GetUserNamespaces (the Authorization Mapper): a pure function of the
\* group list, one grant per group that names a namespace.
RECURSIVE GetUserNamespaces(_)
GetUserNamespaces(groups) ==
    IF groups = <<>> THEN <<>>
    ELSE (IF Head(groups) = "grp-ns-dev"
          THEN <<[Namespace |-> "ns-dev", Role |-> "write"]>> ELSE <<>>)
         \o GetUserNamespaces(Tail(groups))

\* ------------------------------------------------------------- Token Issuer
NoToken == <<>>

\* generateUserToken with the positional claim fields slipped: the admin
\* flag is not the one passed.
generateUserTokenAdminSlip(groups, username, hasAdminAccess) ==
    LET auths == GetUserNamespaces(groups)
    IN  IF Config.isNil THEN [token |-> NoToken, err |-> Nil, panic |-> TRUE,
                              at |-> now, duration |-> 0]
        ELSE
        LET duration == ParseDuration(Config.TokenLifeTime).d
            time == now + duration
            claims == Claims(auths, username, FALSE, Unix(time), "Kubi Server")
            signed == SignedString(claims, signingKey)
        IN  [token |-> signed.token, err |-> signed.err, panic |-> FALSE,
             at |-> now, duration |-> duration]

\* generateUserToken with the lifetime not added to the expiry.
generateUserTokenNoLifetime(groups, username, hasAdminAccess) ==
    LET auths == GetUserNamespaces(groups)
    IN  IF Config.isNil THEN [token |-> NoToken, err |-> Nil, panic |-> TRUE,
                              at |-> now, duration |-> 0]
        ELSE
        LET duration == ParseDuration(Config.TokenLifeTime).d
            claims == Claims(auths, username, hasAdminAccess, Unix(now), "Kubi Server")
            signed == SignedString(claims, signingKey)
        IN  [token |-> signed.token, err |-> signed.err, panic |-> FALSE,
             at |-> now, duration |-> duration]

\* generateUserToken: (signedToken, err), or a panic when utils.Config is
\* nil.  The error of time.ParseDuration is overwritten unread.
generateUserToken(groups, username, hasAdminAccess) ==
    LET auths == GetUserNamespaces(groups)
    IN  IF Config.isNil THEN [token |-> NoToken, err |-> Nil, panic |-> TRUE,
                              at |-> now, duration |-> 0]
        ELSE
        LET duration == ParseDuration(Config.TokenLifeTime).d
            time == now + duration
            claims == Claims(auths, username, hasAdminAccess, Unix(time), "Kubi Server")
            signed == SignedString(claims, signingKey)
        IN  [token |-> signed.token, err |-> signed.err, panic |-> FALSE,
             at |-> now, duration |-> duration]

\* baseGenerateToken with a cache: a user a token was issued to before is
\* given that token again without the directory being asked.
baseGenerateTokenCached(auth, d) ==
    IF \E i \in issued : i.username = auth.Username
    THEN LET c == CHOOSE i \in issued : i.username = auth.Username
         IN  [isNil |-> FALSE, token |-> c.token, err |-> Nil, panic |-> FALSE,
              steps |-> <<>>, at |-> c.at, duration |-> c.duration]
    ELSE IF ~d.authOk
    THEN [isNil |-> TRUE, token |-> NoToken, err |-> "AuthenticateUser failed", panic |-> FALSE,
          steps |-> <<"AuthenticateUser">>, at |-> now, duration |-> 0]
    ELSE IF ~d.groupsOk
    THEN [isNil |-> TRUE, token |-> NoToken, err |-> "GetUserGroups failed", panic |-> FALSE,
          steps |-> <<"AuthenticateUser", "GetUserGroups">>, at |-> now, duration |-> 0]
    ELSE
    LET g == generateUserToken(d.groups, auth.Username, d.admin)
        steps == <<"AuthenticateUser", "GetUserGroups", "HasAdminAccess", "generateUserToken">>
    IN  IF g.panic \/ g.err # Nil
        THEN [isNil |-> TRUE, token |-> NoToken, err |-> g.err, panic |-> g.panic,
              steps |-> steps, at |-> g.at, duration |-> g.duration]
        ELSE [isNil |-> FALSE, token |-> g.token, err |-> Nil, panic |-> FALSE,
              steps |-> steps, at |-> g.at, duration |-> g.duration]

\* baseGenerateToken with the error of GetUserGroups not looked at.
baseGenerateTokenGroupsUnchecked(auth, d) ==
    IF ~d.authOk
    THEN [isNil |-> TRUE, token |-> NoToken, err |-> "AuthenticateUser failed", panic |-> FALSE,
          steps |-> <<"AuthenticateUser">>, at |-> now, duration |-> 0]
    ELSE
    LET g == generateUserToken(d.groups, auth.Username, d.admin)
        steps == <<"AuthenticateUser", "GetUserGroups", "HasAdminAccess", "generateUserToken">>
    IN  IF g.panic \/ g.err # Nil
        THEN [isNil |-> TRUE, token |-> NoToken, err |-> g.err, panic |-> g.panic,
              steps |-> steps, at |-> g.at, duration |-> g.duration]
        ELSE [isNil |-> FALSE, token |-> g.token, err |-> Nil, panic |-> FALSE,
              steps |-> steps, at |-> g.at, duration |-> g.duration]

\* baseGenerateToken: (token, err) with token nil exactly when err is not,
\* or a panic; steps lists the calls made, in order.
baseGenerateToken(auth, d) ==
    IF ~d.authOk
    THEN [isNil |-> TRUE, token |-> NoToken, err |-> "AuthenticateUser failed", panic |-> FALSE,
          steps |-> <<"AuthenticateUser">>, at |-> now, duration |-> 0]
    ELSE IF ~d.groupsOk
    THEN [isNil |-> TRUE, token |-> NoToken, err |-> "GetUserGroups failed", panic |-> FALSE,
          steps |-> <<"AuthenticateUser", "GetUserGroups">>, at |-> now, duration |-> 0]
    ELSE
    LET g == generateUserToken(d.groups, auth.Username, d.admin)
        steps == <<"AuthenticateUser", "GetUserGroups", "HasAdminAccess", "generateUserToken">>
    IN  IF g.panic \/ g.err # Nil
        THEN [isNil |-> TRUE, token |-> NoToken, err |-> g.err, panic |-> g.panic,
              steps |-> steps, at |-> g.at, duration |-> g.duration]
        ELSE [isNil |-> FALSE, token |-> g.token, err |-> Nil, panic |-> FALSE,
              steps |-> steps, at |-> g.at, duration |-> g.duration]

\* ------------------------------------------------------ http.ResponseWriter
\* A response body: nothing, a fixed text, a token, or a YAML document.
NoDoc == [ApiVersion |-> "", Kind |-> "", Clusters |-> <<>>, CurrentContext |-> <<>>,
          Contexts |-> <<>>, Users |-> <<>>]
NoBody == [kind |-> "empty", text |-> "", token |-> NoToken, doc |-> NoDoc]
TextBody(t) == [NoBody EXCEPT !.kind = "text", !.text = t]
TokenBody(t) == [NoBody EXCEPT !.kind = "token", !.token = t]
YamlBody(d) == [NoBody EXCEPT !.kind = "yaml", !.doc = d]

\* The writer a handler is given: whether the status line and headers are
\* fixed (wroteHeader) and with which status, the Content-Type in the header
\* map (header), the Content-Type fixed with the status (sent), the body.
NewResponse == [wroteHeader |-> FALSE, status |-> 0, header |-> "", sent |-> "", body |-> NoBody]

\* w.WriteHeader(code): the first call fixes the status and the headers.
WriteHeader(w, code) ==
    IF w.wroteHeader THEN w
    ELSE [w EXCEPT !.wroteHeader = TRUE, !.status = code, !.sent = w.header]

\* w.Header().Set("Content-Type", v).
SetContentType(w, v) == [w EXCEPT !.header = v]

\* http.DetectContentType on the first bytes written: every body written
\* here is text.
DetectContentType(b) == IF b.kind = "empty" THEN "" ELSE "text/plain; charset=utf-8"

\* w.Write / io.WriteString(w, ...): an implicit WriteHeader(200) first;
\* when the headers fixed with the status hold no Content-Type, the server
\* sends the one it detects from the body.
Write(w, b) ==
    LET ws == WriteHeader(w, 200)
    IN  [ws EXCEPT !.body = b,
                   !.sent = IF ws.sent = "" THEN DetectContentType(b) ELSE ws.sent]

\* The handler returned: the server sends the response, with status 200 when
\* the handler never called WriteHeader.
Finish(w) == WriteHeader(w, 200)

\* ----------------------------------------------------------------- handlers
\* What a handler did with one request: the response as sent (or as written
\* before the panic, when fault), the calls made in order, the result of
\* baseGenerateToken when it was called (issuedTok, called).
NoIssue == [isNil |-> TRUE, token |-> NoToken, err |-> Nil, panic |-> FALSE,
            steps |-> <<>>, at |-> 0, duration |-> 0]
Outcome(w, fault, steps, called, bt) ==
    [w |-> w, fault |-> fault, steps |-> steps, called |-> called, bt |-> bt]

\* GenerateJWT.  After a failed basicAuth the handler does not return: it
\* dereferences the nil auth.
GenerateJWT(h, d) ==
    LET ba == basicAuth(h)
    IN  IF ba.panic THEN Outcome(NewResponse, TRUE, <<"basicAuth">>, FALSE, NoIssue)
        ELSE IF ba.err # Nil
        THEN Outcome(Write(WriteHeader(NewResponse, 401),
                           TextBody("Basic Auth: Invalid credentials")),
                     TRUE, <<"basicAuth">>, FALSE, NoIssue)
        ELSE
        LET bt == baseGenerateToken(ba.auth, d)
            steps == <<"basicAuth">> \o bt.steps
        IN  IF bt.panic THEN Outcome(NewResponse, TRUE, steps, TRUE, bt)
            ELSE IF ~bt.isNil
            THEN Outcome(Finish(Write(WriteHeader(NewResponse, 200), TokenBody(bt.token))),
                         FALSE, steps, TRUE, bt)
            ELSE Outcome(Finish(NewResponse), FALSE, steps, TRUE, bt)

\* The document with a current context that does not name the user.
KubeConfigSharedContext(host, username, token) ==
    [ApiVersion |-> "v1",
     Kind |-> "Config",
     Clusters |-> <<[Name |-> "kubernetes",
                     Server |-> <<"https://", host>>,
                     CertificateData |-> Config.KubeCa]>>,
     CurrentContext |-> <<"kubernetes">>,
     Contexts |-> <<[Name |-> <<"kubernetes", "-">> \o username,
                     Cluster |-> "kubernetes",
                     User |-> username]>>,
     Users |-> <<[Name |-> username, Token |-> token]>>]

\* The types.KubeConfig document GenerateConfig builds.
KubeConfig(host, username, token) ==
    [ApiVersion |-> "v1",
     Kind |-> "Config",
     Clusters |-> <<[Name |-> "kubernetes",
                     Server |-> <<"https://", host>>,
                     CertificateData |-> Config.KubeCa]>>,
     CurrentContext |-> <<"kubernetes", "-">> \o username,
     Contexts |-> <<[Name |-> <<"kubernetes", "-">> \o username,
                     Cluster |-> "kubernetes",
                     User |-> username]>>,
     Users |-> <<[Name |-> username, Token |-> token]>>]

\* GenerateConfig.  Content-Type is set after WriteHeader.
GenerateConfig(h, d, host) ==
    LET ba == basicAuth(h)
    IN  IF ba.panic THEN Outcome(NewResponse, TRUE, <<"basicAuth">>, FALSE, NoIssue)
        ELSE IF ba.err # Nil
        THEN Outcome(Write(WriteHeader(NewResponse, 401),
                           TextBody("Basic Auth: Invalid credentials")),
                     TRUE, <<"basicAuth">>, FALSE, NoIssue)
        ELSE
        LET bt == baseGenerateToken(ba.auth, d)
            steps == <<"basicAuth">> \o bt.steps
        IN  IF bt.panic THEN Outcome(NewResponse, TRUE, steps, TRUE, bt)
            ELSE IF bt.err # Nil
            THEN Outcome(Finish(WriteHeader(NewResponse, 401)), FALSE, steps, TRUE, bt)
            ELSE
            LET config == KubeConfig(host, ba.auth.Username, bt.token)
                w1 == WriteHeader(NewResponse, 201)
                w2 == SetContentType(w1, "text/x-yaml; charset=utf-8")
            IN  Outcome(Finish(Write(w2, YamlBody(config))), FALSE,
                        steps \o <<"KubeConfig">>, TRUE, bt)

\* VerifyJWT: the body is parsed; a nil token is dereferenced.  logged is
\* what the handler logs: the claims or the error.
VerifyJWT(bodyString) ==
    LET p == ParseWithClaims(bodyString, signingKey, Unix(now))
    IN  IF p.token.isNil
        THEN [w |-> NewResponse, fault |-> TRUE, logged |-> "", parsed |-> p]
        ELSE [w |-> Finish(WriteHeader(NewResponse, 200)), fault |-> FALSE,
              logged |-> IF p.token.hasClaims /\ p.token.Valid THEN "claims" ELSE "err",
              parsed |-> p]

\* ---------------------------------------------------------- Bearer Extractor
\* The Authorization header of a protected request, as the sequence of its
\* pieces: an occurrence of the text "Bearer " (kind "prefix"), or a
\* non-empty text holding no such occurrence (kind "text"), given by its
\* dot-separated segments (str).
Prefix == [kind |-> "prefix", str |-> <<>>]
Text(tokenString) == [kind |-> "text", str |-> tokenString]

\* The empty string: one segment, which decodes to no JSON.
EmptySegment == [ok |-> TRUE, val |-> NotJson, slack |-> 0]
EmptyString == <<EmptySegment>>

\* strings.Split(bearer, "Bearer "): the texts between the occurrences.  A
\* text between two occurrences is empty or one piece.
RECURSIVE SplitBearer(_)
SplitBearer(pieces) ==
    IF pieces = <<>> THEN <<EmptyString>>
    ELSE IF Head(pieces).kind = "prefix" THEN <<EmptyString>> \o SplitBearer(Tail(pieces))
    ELSE IF Len(pieces) >= 2
    THEN <<Head(pieces).str>> \o SplitBearer(Tail(Tail(pieces)))
    ELSE <<Head(pieces).str>>

\* *types.AuthJWTClaims returned by CurrentJWT, nil or not.
NilClaims == [isNil |-> TRUE, claims |-> ZeroClaims]

\* CurrentJWT with the parse error not looked at: the claims are returned
\* whenever the token was parsed.
CurrentJWTErrUnread(bearer) ==
    IF ~(Len(bearer) >= 1 /\ bearer[1].kind = "prefix") \/ Len(bearer) < 2
    THEN [ret |-> NilClaims, err |-> {"Invalid Authorization Header"}, panic |-> FALSE,
          called |-> FALSE, passed |-> EmptyString]
    ELSE
    LET tokenString == SplitBearer(bearer)[2]
        p == ParseWithClaims(tokenString, signingKey, Unix(now))
    IN  IF p.token.hasClaims
        THEN [ret |-> [isNil |-> FALSE, claims |-> p.token.Claims], err |-> {}, panic |-> FALSE,
              called |-> TRUE, passed |-> tokenString]
        ELSE [ret |-> NilClaims, err |-> p.err, panic |-> FALSE,
              called |-> TRUE, passed |-> tokenString]

\* CurrentJWT: (claims, err), or a panic when err.Error() is called on the
\* nil error.  called and passed say whether jwt.ParseWithClaims was called
\* and with which token string.
CurrentJWT(bearer) ==
    IF ~(Len(bearer) >= 1 /\ bearer[1].kind = "prefix") \/ Len(bearer) < 2
    THEN [ret |-> NilClaims, err |-> {"Invalid Authorization Header"}, panic |-> FALSE,
          called |-> FALSE, passed |-> EmptyString]
    ELSE
    LET splitToken == SplitBearer(bearer)
        tokenString == splitToken[2]
        p == ParseWithClaims(tokenString, signingKey, Unix(now))
    IN  IF p.err # {}
        THEN [ret |-> NilClaims, err |-> p.err, panic |-> FALSE,
              called |-> TRUE, passed |-> tokenString]
        ELSE IF p.token.hasClaims /\ p.token.Valid
        THEN [ret |-> [isNil |-> FALSE, claims |-> p.token.Claims], err |-> {}, panic |-> FALSE,
              called |-> TRUE, passed |-> tokenString]
        ELSE [ret |-> NilClaims, err |-> {}, panic |-> TRUE,
              called |-> TRUE, passed |-> tokenString]

\* ------------------------------------------------------------------- inputs
\* Decoded Basic payloads: "alice:pw", "alice:pw:x" (a colon in the
\* password), "alice" (no colon), the empty payload.
Payloads == {<<"alice", ":", "pw">>, <<"alice", ":", "pw", ":", "x">>, <<"alice">>, <<>>}
NoText == [bytes |-> <<>>, bad |-> FALSE]

\* Authorization headers of issuance requests: none, "Basic" alone, another
\* scheme, a scheme in the wrong case, and "Basic " followed by base64 text
\* that decodes (bad = FALSE) or stops decoding at an invalid character
\* after the bytes given (bad = TRUE; "Basic !!!notbase64!!!" decodes no
\* byte).
BasicHeaders ==
    {[scheme |-> "", sep |-> FALSE, rest |-> NoText],
     [scheme |-> "Basic", sep |-> FALSE, rest |-> NoText],
     [scheme |-> "Bearer", sep |-> TRUE, rest |-> [bytes |-> <<"alice", ":", "pw">>, bad |-> FALSE]],
     [scheme |-> "basic", sep |-> TRUE, rest |-> [bytes |-> <<"alice", ":", "pw">>, bad |-> FALSE]]} \cup
    {[scheme |-> "Basic", sep |-> TRUE, rest |-> [bytes |-> p, bad |-> b]] :
        p \in Payloads, b \in BOOLEAN}

Hosts == {"host:6443", "evil:6443"}

\* Token strings a client presents.  From an issued token: itself, and the
\* token with one segment altered.  Forged ones: any claims under any
\* header algorithm, signed by who holds key k.  Malformed ones.
JunkMac == <<"junk", <<>>, <<>>>>
JunkSegment == [ok |-> TRUE, val |-> NotJson, slack |-> 0]
BadBase64 == [ok |-> FALSE, val |-> NotJson, slack |-> 0]

Forge(alg, k, claims) ==
    LET h == EncodeSegment(MarshalHeader(alg))
        p == EncodeSegment(MarshalClaims(claims))
    IN  <<h, p, EncodeSegment(HMAC(alg, k, <<h, p>>))>>

FlipAdmin(seg) == [seg EXCEPT !.val.obj.adminAccess = ~seg.val.obj.adminAccess]

Altered(tok) ==
    {tok,
     [tok EXCEPT ![2].slack = 1],
     [tok EXCEPT ![2] = FlipAdmin(tok[2])],
     [tok EXCEPT ![3].slack = 1],
     [tok EXCEPT ![3].val = JunkMac],
     [tok EXCEPT ![3].ok = FALSE],
     [tok EXCEPT ![1] = EncodeSegment(MarshalHeader("HS256"))]}

ForgeAlgs == {"HS512", "HS256", "none", "RS256", "XX"}
ForgedClaims == {Claims(<<>>, <<"mallory">>, TRUE, 2, "Kubi Server")}
Forged == {Forge(a, k, c) : a \in ForgeAlgs, k \in Keys, c \in ForgedClaims}

SomeSig == EncodeSegment(JunkMac)
Malformed ==
    {EmptyString,
     <<JunkSegment, JunkSegment>>,
     <<JunkSegment, JunkSegment, JunkSegment, JunkSegment>>,
     <<BadBase64, JunkSegment, SomeSig>>,
     <<JunkSegment, JunkSegment, SomeSig>>,
     <<EncodeSegment(MarshalHeader("HS512")), BadBase64, SomeSig>>,
     <<EncodeSegment(MarshalHeader("HS512")), JunkSegment, SomeSig>>}

Presented == UNION {Altered(i.token) : i \in issued} \cup Forged \cup Malformed

\* Authorization headers of protected requests: "Bearer " and a token
\* string; no header, "Bearer " alone, a text without the prefix
\* ("Token abc"); headers in which "Bearer " occurs again after the prefix,
\* among them an issued token followed by "Bearer " and more text.
BearerHeaders ==
    {<<Prefix, Text(t)>> : t \in Presented} \cup
    {<<>>, <<Prefix>>, <<Text(<<JunkSegment>>)>>} \cup
    {<<Prefix, Prefix, Text(t)>> : t \in Malformed} \cup
    {<<Prefix, Text(<<JunkSegment>>), Prefix, Text(t)>> : t \in Malformed} \cup
    {<<Prefix, Text(i.token), Prefix, Text(<<JunkSegment>>)>> : i \in issued}

\* ------------------------------------------------------------------ actions
NoVerify == [w |-> NewResponse, fault |-> FALSE, logged |-> "",
             parsed |-> [token |-> NilToken, err |-> {}]]
NoCurrent == [ret |-> NilClaims, err |-> {}, panic |-> FALSE, called |-> FALSE,
              passed |-> EmptyString]
NoDir == [authOk |-> FALSE, groupsOk |-> FALSE, groups |-> <<>>, admin |-> FALSE]
NoEnv == [inCluster |-> FALSE, fatal |-> FALSE, cfgOk |-> FALSE, ldapOk |-> FALSE, lifetime |-> ""]
NoMade == [config |-> NilConfig, err |-> Nil, exit |-> FALSE]
NoRequest ==
    [handler |-> "", hdr |-> [scheme |-> "", sep |-> FALSE, rest |-> NoText], dir |-> NoDir,
     host |-> "", out |-> Outcome(NewResponse, FALSE, <<>>, FALSE, NoIssue),
     bearer |-> <<>>, body |-> EmptyString, ver |-> NoVerify, cur |-> NoCurrent,
     env |-> NoEnv, made |-> NoMade]

\* The record kept of a token generateUserToken returned.
Issue(o, d) ==
    IF o.called /\ ~o.bt.isNil
    THEN {[token |-> o.bt.token, at |-> o.bt.at, duration |-> o.bt.duration,
           groups |-> d.groups, username |-> basicAuth(last'.hdr).auth.Username,
           admin |-> d.admin, lifetime |-> Config.TokenLifeTime]}
    ELSE {}

Init ==
    /\ keyFile \in KeyFiles
    /\ signingKey = ReadFile(keyFile).data
    /\ Config = NilConfig
    /\ phase = "boot"
    /\ now = TicksPerSec
    /\ issued = {}
    /\ expired = {}
    /\ last = NoRequest

\* main: build the configuration; serve unless MakeConfig returned an error.
Startup ==
    /\ phase = "boot"
    /\ \E e \in Environments :
          LET r == MakeConfig(e)
          IN  /\ phase' = IF r.exit \/ r.err # Nil THEN "exited" ELSE "serving"
              /\ Config' = IF r.exit \/ r.err # Nil THEN NilConfig ELSE r.config
              /\ last' = [NoRequest EXCEPT !.handler = "MakeConfig", !.env = e, !.made = r]
    /\ UNCHANGED <<keyFile, signingKey, now, issued, expired>>

\* Time passes; the request handled before is over.
Tick ==
    /\ phase = "serving"
    /\ now < MaxTime
    /\ now' = now + 1
    /\ last' = NoRequest
    /\ UNCHANGED <<keyFile, signingKey, Config, phase, issued, expired>>

ServeGenerateJWT ==
    /\ phase = "serving"
    /\ last = NoRequest
    /\ \E h \in BasicHeaders, d \in DirAnswers :
          LET o == GenerateJWT(h, d)
          IN  /\ last' = [NoRequest EXCEPT !.handler = "GenerateJWT", !.hdr = h, !.dir = d,
                                           !.out = o]
              /\ issued' = issued \cup Issue(o, d)
              /\ Cardinality(issued') <= MaxIssued
    /\ UNCHANGED <<keyFile, signingKey, Config, phase, now, expired>>

ServeGenerateConfig ==
    /\ phase = "serving"
    /\ last = NoRequest
    /\ \E h \in BasicHeaders, d \in DirAnswers, host \in Hosts :
          LET o == GenerateConfig(h, d, host)
          IN  /\ last' = [NoRequest EXCEPT !.handler = "GenerateConfig", !.hdr = h, !.dir = d,
                                           !.host = host, !.out = o]
              /\ issued' = issued \cup Issue(o, d)
              /\ Cardinality(issued') <= MaxIssued
    /\ UNCHANGED <<keyFile, signingKey, Config, phase, now, expired>>

ServeVerifyJWT ==
    /\ phase = "serving"
    /\ last = NoRequest
    /\ \E t \in Presented :
          last' = [NoRequest EXCEPT !.handler = "VerifyJWT", !.body = t,
                                   !.ver = VerifyJWT(t)]
    /\ UNCHANGED <<keyFile, signingKey, Config, phase, now, issued, expired>>

\* A protected endpoint calls CurrentJWT.
ServeCurrentJWT ==
    /\ phase = "serving"
    /\ last = NoRequest
    /\ \E b \in BearerHeaders :
          LET r == CurrentJWT(b)
          IN  /\ last' = [NoRequest EXCEPT !.handler = "CurrentJWT", !.bearer = b, !.cur = r]
              /\ expired' = expired \cup
                    {i.token : i \in {j \in issued : r.called /\ r.passed = j.token
                                                      /\ "Expired" \in r.err}}
    /\ UNCHANGED <<keyFile, signingKey, Config, phase, now, issued>>

\* The request is over: the server keeps nothing of it.
Forget ==
    /\ last # NoRequest
    /\ last' = NoRequest
    /\ UNCHANGED <<keyFile, signingKey, Config, phase, now, issued, expired>>

Next ==
    \/ Startup
    \/ Tick
    \/ ServeGenerateJWT
    \/ ServeGenerateConfig
    \/ ServeVerifyJWT
    \/ ServeCurrentJWT
    \/ Forget

Spec == Init /\ [][Next]_vars

\* ------------------------------------------------------------------- claims
IssuanceHandlers == {"GenerateJWT", "GenerateConfig"}

\* The header holds well-formed Basic credentials: the scheme "Basic", a
\* space, base64 text that decodes, and a colon in the decoded payload.
WellFormedBasic(h) ==
    /\ h.sep /\ h.scheme = "Basic"
    /\ ~h.rest.bad
    /\ IndexOf(h.rest.bytes, ":") # 0

\* C1: basicAuth returns either credentials or an error and never faults,
\* and for a header that is not well-formed Basic credentials (scheme
\* missing or wrong, base64 not decodable, no colon in the payload) it
\* returns the one error "Invalid Auth" and no credentials.
C1_BasicAuthErrorOrCredentials ==
    last.handler \in IssuanceHandlers =>
        LET r == basicAuth(last.hdr)
        IN  /\ ~r.panic
            /\ (r.err # Nil) # (~r.auth.isNil)
            /\ ~WellFormedBasic(last.hdr) => (r.err = "Invalid Auth" /\ r.auth.isNil)

\* C2: on both issuance endpoints, when the header is not well-formed Basic
\* credentials the request ends with status 401, without a fault, without a
\* call to the directory and without a token.
C2_ExtractionFailureEnds401 ==
    (last.handler \in IssuanceHandlers /\ ~WellFormedBasic(last.hdr)) =>
        /\ ~last.out.fault
        /\ last.out.w.status = 401
        /\ ~last.out.called
        /\ last.out.steps = <<"basicAuth">>

\* Directory authentication, group resolution and signing all succeeded.
IssuanceSucceeded(r) == r.dir.authOk /\ r.dir.groupsOk /\ r.out.called /\ ~r.out.bt.isNil

\* C3: GenerateJWT answers a request with well-formed Basic credentials
\* with 200 and the signed token exactly when authentication, group
\* resolution and signing all succeed, and with 401 otherwise.
C3_GenerateJWTStatus ==
    (last.handler = "GenerateJWT" /\ WellFormedBasic(last.hdr)) =>
        /\ ~last.out.fault
        /\ IF IssuanceSucceeded(last)
           THEN last.out.w.status = 200 /\ last.out.w.body = TokenBody(last.out.bt.token)
           ELSE last.out.w.status = 401

\* The header that presents token string t as a bearer token.
Bearer(t) == <<Prefix, Text(t)>>

\* C4: a token returned by generateUserToken for (username, groups, admin),
\* presented to CurrentJWT before its expiry (issue instant plus lifetime)
\* under the same signing key, is accepted, and the claims returned have
\* that username, that admin flag and the grants GetUserNamespaces gives
\* for the groups.
C4_RoundTrip ==
    \A i \in issued :
        now < i.at + i.duration =>
            LET r == CurrentJWT(Bearer(i.token))
            IN  /\ ~r.panic /\ r.err = {} /\ ~r.ret.isNil
                /\ r.ret.claims.User = i.username
                /\ r.ret.claims.AdminAccess = i.admin
                /\ r.ret.claims.Auths = GetUserNamespaces(i.groups)

\* C4 witness: CurrentJWT has just accepted, some time after its issue and
\* before its expiry, the token issued to alice with groups and admin
\* access, and returned her claims.
C4_Witness ==
    /\ last.handler = "CurrentJWT"
    /\ \E i \in issued :
          /\ last.bearer = Bearer(i.token)
          /\ i.username = <<"alice">> /\ i.admin /\ i.groups # <<>>
          /\ i.at < now /\ now < i.at + i.duration
          /\ ~last.cur.ret.isNil
          /\ last.cur.ret.claims.User = <<"alice">>
          /\ last.cur.ret.claims.Auths = <<[Namespace |-> "ns-dev", Role |-> "write"]>>

\* Whether CurrentJWT, called now, accepts token string t, and whether it
\* rejects it as expired.
AcceptsNow(t) == ~CurrentJWT(Bearer(t)).ret.isNil
ExpiredNow(t) == "Expired" \in CurrentJWT(Bearer(t)).err

\* A token CurrentJWT has rejected as expired is not accepted now.
C5_OnceExpired == \A t \in expired : ~AcceptsNow(t) /\ ExpiredNow(t)

\* C5 as stated: a token issued at t with the configured lifetime L is
\* accepted at every time before t + L and rejected as expired at every
\* time after t + L; once rejected as expired it is not accepted again.
C5_ExpiryAtInstant ==
    /\ \A i \in issued :
          ParseDuration(i.lifetime).err = Nil =>
              /\ now < i.at + i.duration => AcceptsNow(i.token)
              /\ now > i.at + i.duration => (~AcceptsNow(i.token) /\ ExpiredNow(i.token))
    /\ C5_OnceExpired

\* The token's expiry is kept in whole seconds: it is accepted through the
\* clock second that holds t + L and rejected as expired from the next
\* second on.
C5_ExpiryAtSecond ==
    \A i \in issued :
        /\ Unix(now) <= Unix(i.at + i.duration) => AcceptsNow(i.token)
        /\ Unix(now) > Unix(i.at + i.duration) => (~AcceptsNow(i.token) /\ ExpiredNow(i.token))

\* C5, amended: a token issued at time t with lifetime L (the duration the
\* issuer applied) is accepted at every time up to the end of the clock
\* second that holds t + L, so at every time before t + L, and rejected as
\* expired at every time from the next second on, so at every time one
\* second or more after t + L; once rejected as expired it is never accepted
\* again.
C5_Expiry == C5_ExpiryAtSecond /\ C5_OnceExpired

\* C5 witness: CurrentJWT has just rejected as expired, with no other
\* error, a token issued with the configured lifetime of one second, at a
\* time after its issue instant plus that lifetime.
C5_Witness ==
    /\ last.handler = "CurrentJWT"
    /\ \E i \in issued :
          /\ last.bearer = Bearer(i.token)
          /\ i.lifetime = "1s" /\ i.duration = TicksPerSec
          /\ now > i.at + i.duration
          /\ last.cur.ret.isNil /\ last.cur.err = {"Expired"}
          /\ i.token \in expired

\* The claims an issued token carries in its payload segment.
CarriedClaims(tok) == UnmarshalClaims(DecodeSegment(tok[2]).val.obj)

\* C6: every issued token carries the issuer "Kubi Server" and an expiry
\* equal to its issue instant plus the configured lifetime.
C6_ExpiryAndIssuer ==
    \A i \in issued :
        /\ CarriedClaims(i.token).Issuer = "Kubi Server"
        /\ ParseDuration(i.lifetime).err = Nil
        /\ CarriedClaims(i.token).ExpiresAt = Unix(i.at + ParseDuration(i.lifetime).d)

\* C7: no issuance request is served, and no token is issued, while the
\* configured lifetime string is malformed.
C7_MalformedLifetimeNeverServed ==
    /\ (last.handler \in IssuanceHandlers /\ ~Config.isNil) =>
            ParseDuration(Config.TokenLifeTime).err = Nil
    /\ \A i \in issued : ParseDuration(i.lifetime).err = Nil

\* The load of the signing key failed, or gave no byte.
KeyUnavailable == ReadFile(keyFile).err # Nil \/ Len(signingKey) = 0

\* The request handled last ended with the Verifier accepting a token.
Accepted(r) ==
    \/ r.handler = "CurrentJWT" /\ ~r.cur.ret.isNil
    \/ r.handler = "VerifyJWT" /\ r.ver.logged = "claims"

\* C8: when the signing key is unavailable the service accepts no traffic,
\* no token is issued and no token is accepted.
C8_NoServiceWithoutKey ==
    KeyUnavailable =>
        /\ phase # "serving"
        /\ issued = {}
        /\ ~Accepted(last)

\* The token string the Verifier was given by the request handled last.
Given(r) == IF r.handler = "CurrentJWT" THEN r.cur.passed ELSE r.body
Verified(r) ==
    \/ r.handler = "CurrentJWT" /\ r.cur.called
    \/ r.handler = "VerifyJWT"

\* An accepted token's decoded signature is the MAC, under the process
\* key, of its header and payload segments.
SignatureBinds(r) ==
    Accepted(r) =>
        /\ Len(Given(r)) = 3
        /\ DecodeSegment(Given(r)[3]).err = Nil
        /\ \E a \in HmacAlgs :
              DecodeSegment(Given(r)[3]).val = HMAC(a, signingKey, <<Given(r)[1], Given(r)[2]>>)

\* C9 as stated: an accepted token is signed with the process key over its
\* payload; a token that differs from an issued one in its payload segment
\* only or in its signature segment only is rejected; a token signed with
\* a key other than the process key is rejected.
C9_IntegrityOfText ==
    Verified(last) =>
        /\ SignatureBinds(last)
        /\ \A i \in issued :
              LET t == Given(last)
              IN  (/\ Len(t) = 3 /\ t[1] = i.token[1]
                   /\ (t[2] = i.token[2]) # (t[3] = i.token[3])) => ~Accepted(last)
        /\ \A a \in ForgeAlgs, k \in Keys, c \in ForgedClaims :
              (Given(last) = Forge(a, k, c) /\ k # signingKey) => ~Accepted(last)

\* C9, amended: an accepted token's signature is the MAC under the process
\* key of its header and payload segments; a token that differs from an
\* issued one in its payload segment only, or only in a signature segment
\* that decodes to another signature or does not decode, is rejected (a
\* signature segment that differs only in bits base64 decoding drops is the
\* same signature); a token signed with a key that HMAC does not take for
\* the process key is rejected (HMAC pads keys with zero bytes, so keys
\* that differ in trailing zero bytes only are one key).
C9_Integrity ==
    Verified(last) =>
        /\ SignatureBinds(last)
        /\ \A i \in issued :
              LET t == Given(last)
              IN  /\ (Len(t) = 3 /\ t[1] = i.token[1] /\ t[3] = i.token[3]
                      /\ t[2] # i.token[2]) => ~Accepted(last)
                  /\ (Len(t) = 3 /\ t[1] = i.token[1] /\ t[2] = i.token[2]
                      /\ DecodeSegment(t[3]) # DecodeSegment(i.token[3])) => ~Accepted(last)
        /\ \A a \in ForgeAlgs, k \in Keys, c \in ForgedClaims :
              (Given(last) = Forge(a, k, c) /\ PadKey(k) # PadKey(signingKey)) => ~Accepted(last)

\* C9 witness: CurrentJWT has just rejected, for its signature, an issued
\* token whose payload was altered to claim admin access.
C9_Witness ==
    /\ last.handler = "CurrentJWT" /\ last.cur.called
    /\ \E i \in issued :
          /\ ~i.admin
          /\ last.cur.passed = [i.token EXCEPT ![2] = FlipAdmin(i.token[2])]
          /\ last.cur.ret.isNil /\ last.cur.err = {"SignatureInvalid"}

\* C10: VerifyJWT completes without a fault and answers 200 for every body.
C10_VerifyJWTAlways200 ==
    last.handler = "VerifyJWT" => (~last.ver.fault /\ last.ver.w.status = 200)

\* The pieces of the header after its leading "Bearer ": the remainder.
Remainder(bearer) == Tail(bearer)

\* C11: CurrentJWT passes a header value on to the Verifier exactly when it
\* starts with "Bearer " and has a non-empty remainder, what the Verifier
\* receives is the whole remainder, and every other header value yields
\* the header error without the Verifier being called.
C11_BearerRemainder ==
    last.handler = "CurrentJWT" =>
        LET b == last.bearer
            wellFormed == Len(b) >= 2 /\ b[1].kind = "prefix"
        IN  /\ last.cur.called <=> wellFormed
            /\ last.cur.called => Remainder(b) = <<Text(last.cur.passed)>>
            /\ ~last.cur.called =>
                  /\ last.cur.ret.isNil /\ ~last.cur.panic
                  /\ last.cur.err = {"Invalid Authorization Header"}

\* C12: GenerateConfig answers every successful request with status 201, a
\* Content-Type of text/x-yaml carried by the response and the serialized
\* document as body, and every request with bad credentials or an issuance
\* error with 401.
C12_GenerateConfigResponse ==
    last.handler = "GenerateConfig" =>
        /\ ~last.out.fault
        /\ IF WellFormedBasic(last.hdr) /\ IssuanceSucceeded(last)
           THEN /\ last.out.w.status = 201
                /\ last.out.w.sent \in {"text/x-yaml", "text/x-yaml; charset=utf-8"}
                /\ last.out.w.body.kind = "yaml"
                /\ last.out.w.body.doc =
                      KubeConfig(last.host, basicAuth(last.hdr).auth.Username, last.out.bt.token)
           ELSE last.out.w.status = 401

\* The document GenerateConfig sent with the request handled last.
Rendered(r) == r.handler = "GenerateConfig" /\ r.out.w.body.kind = "yaml"

\* Usernames a document is rendered for: "alice", "bob", the empty name.
Usernames == {<<"alice">>, <<"bob">>, <<>>}

\* The naming of the document doc rendered for username u and token tok.
NamedFor(doc, u, tok) ==
    /\ doc.ApiVersion = "v1" /\ doc.Kind = "Config"
    /\ Len(doc.Clusters) = 1 /\ doc.Clusters[1].Name = "kubernetes"
    /\ Len(doc.Contexts) = 1
    /\ doc.Contexts[1].Name = <<"kubernetes", "-">> \o u
    /\ doc.CurrentContext = doc.Contexts[1].Name
    /\ doc.Contexts[1].Cluster = "kubernetes"
    /\ doc.Contexts[1].User = u
    /\ Len(doc.Users) = 1 /\ doc.Users[1].Name = u
    /\ doc.Users[1].Token = tok

\* C13: for every username u, the document GenerateConfig renders has
\* apiVersion "v1", kind "Config", exactly one cluster entry, named
\* "kubernetes", exactly one context, named "kubernetes-<u>", which is also
\* the current context and refers to cluster "kubernetes" and user u, and
\* exactly one user entry, named u, which holds the token issued for this
\* same request.
C13_NamingAndCredential ==
    Rendered(last) =>
        LET doc == last.out.w.body.doc
            u == basicAuth(last.hdr).auth.Username
        IN  /\ last.out.called /\ ~last.out.bt.isNil
            /\ NamedFor(doc, u, last.out.bt.token)
            /\ \E i \in issued :
                  i.token = doc.Users[1].Token /\ i.username = u /\ i.at = now
            /\ \A v \in Usernames :
                  NamedFor(KubeConfig(last.host, v, last.out.bt.token), v, last.out.bt.token)

\* C13 witness: GenerateConfig has just rendered the document for alice:
\* the current context is "kubernetes-alice" and the user entry "alice"
\* holds the token issued to alice by this request.
C13_Witness ==
    /\ Rendered(last)
    /\ basicAuth(last.hdr).auth.Username = <<"alice">>
    /\ last.out.w.body.doc.CurrentContext = <<"kubernetes", "-", "alice">>
    /\ last.out.w.body.doc.Users[1].Name = <<"alice">>
    /\ \E i \in issued :
          i.username = <<"alice">> /\ i.at = now /\ i.token = last.out.w.body.doc.Users[1].Token

\* C14: the cluster entry of the rendered document carries the configured
\* cluster endpoint and the configured CA data, and a request that differs
\* in its Host header only gets the same cluster entry.
C14_ClusterData ==
    Rendered(last) =>
        LET doc == last.out.w.body.doc
        IN  /\ doc.Clusters[1].Server = <<"https://", Config.ApiServerURL>>
            /\ doc.Clusters[1].CertificateData = Config.KubeCa
            /\ \A host \in Hosts :
                  GenerateConfig(last.hdr, last.dir, host).w.body.doc.Clusters = doc.Clusters

\* What the issuance endpoint of request r answers to header h under the
\* directory answers d.
Answer(r, h, d) ==
    IF r.handler = "GenerateJWT" THEN GenerateJWT(h, d) ELSE GenerateConfig(h, d, r.host)

\* The request is to be rejected: its credentials are malformed, or the
\* directory or the signing failed.
ToReject(h, d, o) ==
    ~(WellFormedBasic(h) /\ d.authOk /\ d.groupsOk /\ o.called /\ ~o.bt.isNil)

\* C15: on an issuance endpoint, every rejected request, whether for
\* malformed credentials, for failed directory authentication or for any
\* other per-request error, receives the same response: status 401 with
\* the same message body.
C15_UniformRejection ==
    (last.handler \in IssuanceHandlers /\ ToReject(last.hdr, last.dir, last.out)) =>
        /\ ~last.out.fault
        /\ last.out.w.status = 401
        /\ \A h \in BasicHeaders, d \in DirAnswers :
              LET o == Answer(last, h, d)
              IN  ToReject(h, d, o) => (~o.fault /\ o.w = last.out.w)

\* C16: whenever the validation of the configuration or of the LDAP
\* settings fails, MakeConfig returns a non-nil error and no configuration,
\* and it returns a nil error only together with a validated configuration.
C16_MakeConfigErrorOrConfig ==
    (last.handler = "MakeConfig" /\ ~last.made.exit) =>
        /\ (last.env.inCluster /\ (~last.env.cfgOk \/ ~last.env.ldapOk)) =>
              (last.made.err # Nil /\ last.made.config.isNil)
        /\ last.made.err = Nil =>
              (~last.made.config.isNil /\ last.env.cfgOk /\ last.env.ldapOk)

\* The steps of the issuance flow, in order.
FullFlow ==
    <<"basicAuth", "AuthenticateUser", "GetUserGroups", "HasAdminAccess", "generateUserToken",
      "KubeConfig">>
IsPrefix(a, b) == Len(a) <= Len(b) /\ SubSeq(b, 1, Len(a)) = a
Ran(r, step) == \E k \in 1..Len(r.out.steps) : r.out.steps[k] = step

\* The error the directory gives under the answers d.
DirectoryError(d) ==
    IF ~d.authOk THEN "AuthenticateUser failed"
    ELSE IF ~d.groupsOk THEN "GetUserGroups failed" ELSE Nil

\* C17: within one issuance request the steps run in the order of the flow;
\* a token is signed only after the directory has authenticated the
\* credentials and then resolved the groups, both successfully; a document
\* is rendered only after a token was issued; after a failed step no later
\* step runs and the directory's error is what baseGenerateToken returns.
C17_IssuanceOrdering ==
    last.handler \in IssuanceHandlers =>
        /\ IsPrefix(last.out.steps, FullFlow)
        /\ Ran(last, "AuthenticateUser") =>
              (~basicAuth(last.hdr).panic /\ basicAuth(last.hdr).err = Nil)
        /\ Ran(last, "GetUserGroups") => last.dir.authOk
        /\ Ran(last, "generateUserToken") => (last.dir.authOk /\ last.dir.groupsOk)
        /\ Ran(last, "KubeConfig") =>
              /\ last.handler = "GenerateConfig"
              /\ last.out.called /\ ~last.out.bt.isNil /\ last.out.bt.err = Nil
              /\ \E i \in issued : i.token = last.out.bt.token
        /\ (last.out.called /\ DirectoryError(last.dir) # Nil) =>
              /\ last.out.bt.isNil /\ last.out.bt.err = DirectoryError(last.dir)
              /\ ~Ran(last, "generateUserToken") /\ ~Ran(last, "KubeConfig")
              /\ last.dir.authOk <=> Ran(last, "GetUserGroups")
              /\ last.out.w.body.kind = "empty"

\* C17 witness: GenerateConfig has just handled a request that the
\* directory authenticated and whose groups it failed to resolve: the flow
\* stopped after GetUserGroups, nothing was signed or rendered.
C17_Witness ==
    /\ last.handler = "GenerateConfig"
    /\ last.dir.authOk /\ ~last.dir.groupsOk
    /\ last.out.steps = <<"basicAuth", "AuthenticateUser", "GetUserGroups">>
    /\ last.out.bt.err = "GetUserGroups failed"
    /\ last.out.w.status = 401

\* The result recorded for the request handled last is the one its handler
\* gives for the same input, directory answers and clock whatever requests
\* were handled before it and whatever they left behind.
AnsweredAsAlone ==
    /\ last.handler \in IssuanceHandlers => last.out = Answer(last, last.hdr, last.dir)
    /\ last.handler = "VerifyJWT" => last.ver = VerifyJWT(last.body)
    /\ last.handler = "CurrentJWT" => last.cur = CurrentJWT(last.bearer)

\* Every issuance asks the directory again.
AsksDirectoryAgain ==
    (last.handler \in IssuanceHandlers /\ last.out.called /\ ~last.out.bt.isNil) =>
        /\ Ran(last, "AuthenticateUser") /\ Ran(last, "GetUserGroups")
        /\ last.dir.authOk /\ last.dir.groupsOk

\* No step of a serving process changes the signing key or the
\* configuration.
SharedStateUnchanged ==
    /\ signingKey' = signingKey
    /\ phase = "serving" => Config' = Config

DeclaredAlg(t) == DecodeSegment(t[1]).val.obj.alg

\* C19: the Verifier (CurrentJWT and VerifyJWT) accepts only tokens whose
\* header declares HS512, the algorithm the issuer signs with; a token
\* whose header names another algorithm is rejected even when its
\* signature is right for that algorithm under the process key.
C19_AlgorithmBinding ==
    Accepted(last) => (Len(Given(last)) = 3 /\ DeclaredAlg(Given(last)) = "HS512")

\* C20: CurrentJWT returns exactly one of claims and error for every
\* request: claims and a nil error when the token is accepted, no claims
\* and an error otherwise, never neither; and the branch taken when the
\* parse reported no error for a token that is not valid, which calls
\* Error() on the nil error, is never reached.
C20_ClaimsXorError ==
    last.handler = "CurrentJWT" =>
        /\ ~last.cur.panic
        /\ last.cur.ret.isNil <=> last.cur.err # {}
        /\ last.cur.called =>
              LET p == ParseWithClaims(last.cur.passed, signingKey, Unix(now))
              IN  /\ p.err = {} => (~p.token.isNil /\ p.token.hasClaims /\ p.token.Valid)
                  /\ ~last.cur.ret.isNil => (p.err = {} /\ last.cur.ret.claims = p.token.Claims)

\* C20 witness: CurrentJWT has just parsed a correctly signed token whose
\* expiry has passed: the parse gave a token that is not valid together
\* with an error, and CurrentJWT returned that error and no claims.
C20_Witness ==
    /\ last.handler = "CurrentJWT" /\ last.cur.called
    /\ LET p == ParseWithClaims(last.cur.passed, signingKey, Unix(now))
       IN  ~p.token.isNil /\ p.token.hasClaims /\ ~p.token.Valid /\ p.err = {"Expired"}
    /\ last.cur.ret.isNil /\ last.cur.err = {"Expired"} /\ ~last.cur.panic

====
